---- MODULE Spec2Model ----
(***************************************************************************)
(* Model of the exercise cache and fuzzy search engine of hevy-mcp         *)
(* (src/src/utils/exerciseCache.ts).                                       *)
(*                                                                         *)
(* Conventions.                                                            *)
(*  - A JavaScript string is a sequence of one-character strings, so that  *)
(*    includes / indexOf / toLowerCase / split are computed, not assumed.  *)
(*  - An optional value (a field that may be undefined) is a sequence of   *)
(*    length 0 (absent) or 1 (present).                                    *)
(*  - Time is an integer number of milliseconds (Date.now()).              *)
(***************************************************************************)
EXTENDS Integers, Sequences, FiniteSets, TLC

(***************************************************************************)
(* Bounds of the model.                                                    *)
(***************************************************************************)
\* Largest page_count the remote source reports.
MaxPages == 2
\* Number of times the clock advances in a behaviour.
MaxTicks == 2

\* The callers whose initializeCache calls may overlap.
Callers == {1, 2}

(***************************************************************************)
(* Optional values.                                                        *)
(***************************************************************************)
None == <<>>
Some(v) == <<v>>
IsSome(o) == Len(o) = 1
Get(o) == o[1]

(***************************************************************************)
(* Exercise records of the remote catalog used by the cache behaviours.    *)
(* title, type and primary_muscle_group are strings (an absent one is      *)
(* read as "" by every use in the code); secondary_muscle_groups is        *)
(* optional.                                                               *)
(***************************************************************************)
S_barbell == <<"b","a","r","b","e","l","l">>
S_dumbbell == <<"d","u","m","b","b","e","l","l">>
S_chest == <<"c","h","e","s","t">>
S_biceps == <<"b","i","c","e","p","s">>
S_Biceps == <<"B","i","c","e","p","s">>
S_lats == <<"l","a","t","s">>
S_machine == <<"m","a","c","h","i","n","e">>
S_LatPulldown ==
  <<"L","a","t"," ","P","u","l","l","d","o","w","n">>
S_triceps == <<"t","r","i","c","e","p","s">>
S_shoulders == <<"s","h","o","u","l","d","e","r","s">>
S_BenchPressBarbell ==
  <<"B","e","n","c","h"," ","P","r","e","s","s"," ","(","B","a","r","b","e","l","l",")">>
S_BarbellBenchPress ==
  <<"B","a","r","b","e","l","l"," ","B","e","n","c","h"," ","P","r","e","s","s">>
S_DumbbellCurl ==
  <<"D","u","m","b","b","e","l","l"," ","C","u","r","l">>

E_BarbellBenchPress ==
  [title |-> S_BarbellBenchPress, type |-> S_barbell,
   primary_muscle_group |-> S_chest, secondary_muscle_groups |-> None]
E_DumbbellCurl ==
  [title |-> S_DumbbellCurl, type |-> S_dumbbell,
   primary_muscle_group |-> S_biceps, secondary_muscle_groups |-> None]
E_LatPulldown ==
  [title |-> S_LatPulldown, type |-> S_machine,
   primary_muscle_group |-> S_lats,
   secondary_muscle_groups |-> Some(<<S_Biceps>>)]

E_BenchPressBarbell ==
  [title |-> S_BenchPressBarbell, type |-> S_barbell,
   primary_muscle_group |-> S_chest,
   secondary_muscle_groups |-> Some(<<S_triceps, S_shoulders>>)]

\* The remote catalog: the exercise its page holds, page after page.
RemoteCatalog == <<E_BarbellBenchPress, E_DumbbellCurl, E_LatPulldown>>

(***************************************************************************)
(* Strings.                                                                *)
(***************************************************************************)
UpperLetters ==
  <<"A","B","C","D","E","F","G","H","I","J","K","L","M",
    "N","O","P","Q","R","S","T","U","V","W","X","Y","Z">>
LowerLetters ==
  <<"a","b","c","d","e","f","g","h","i","j","k","l","m",
    "n","o","p","q","r","s","t","u","v","w","x","y","z">>
Digits == {"0","1","2","3","4","5","6","7","8","9"}

\* String.prototype.toLowerCase, one character.
UpperSet == {UpperLetters[i] : i \in 1..26}
LowerOfUpper == [c \in UpperSet |->
                   LowerLetters[CHOOSE i \in 1..26 : UpperLetters[i] = c]]
LowerChar(c) == IF c \in UpperSet THEN LowerOfUpper[c] ELSE c

\* String.prototype.toLowerCase.
ToLowerCase(s) == [i \in 1..Len(s) |-> LowerChar(s[i])]

\* The characters String.prototype.trim strips and the regular expression
\* class \s matches (the space and the tab stand for the whole class).
IsWhiteSpace(c) == c \in {" ", "\t"}

\* The regular expression class \w.
WordChars ==
  UpperSet \cup {LowerLetters[i] : i \in 1..26} \cup Digits \cup {"_"}
IsWordChar(c) == c \in WordChars

\* String.prototype.trim.
RECURSIVE TrimStart(_)
TrimStart(s) ==
  IF s # <<>> /\ IsWhiteSpace(Head(s)) THEN TrimStart(Tail(s)) ELSE s

RECURSIVE TrimEnd(_)
TrimEnd(s) ==
  IF s # <<>> /\ IsWhiteSpace(s[Len(s)])
    THEN TrimEnd(SubSeq(s, 1, Len(s) - 1))
    ELSE s

Trim(s) == TrimEnd(TrimStart(s))

\* s.split(/\s+/).filter((t) => t.length > 0): the maximal runs of
\* non-whitespace characters of s, in order.  cur is the run being read.
RECURSIVE SplitRuns(_, _)
SplitRuns(s, cur) ==
  IF s = <<>>
    THEN IF cur = <<>> THEN <<>> ELSE <<cur>>
    ELSE IF IsWhiteSpace(Head(s))
      THEN (IF cur = <<>> THEN <<>> ELSE <<cur>>) \o SplitRuns(Tail(s), <<>>)
      ELSE SplitRuns(Tail(s), Append(cur, Head(s)))

SplitWhitespace(s) == SplitRuns(s, <<>>)

\* tokens.join(" ").
RECURSIVE JoinSpace(_)
JoinSpace(tokens) ==
  IF tokens = <<>> THEN <<>>
  ELSE IF Len(tokens) = 1 THEN tokens[1]
  ELSE tokens[1] \o <<" ">> \o JoinSpace(Tail(tokens))

\* Whether t occurs in s at the 0-based offset i.
OccursAt(s, t, i) ==
  /\ i >= 0
  /\ i + Len(t) <= Len(s)
  /\ \A k \in 1..Len(t) : s[i + k] = t[k]

\* String.prototype.includes.
Includes(s, t) == \E i \in 0..(Len(s) - Len(t)) : OccursAt(s, t, i)

\* String.prototype.indexOf: the first 0-based offset, or -1.
IndexOf(s, t) ==
  IF Includes(s, t)
    THEN CHOOSE i \in 0..Len(s) :
           OccursAt(s, t, i) /\ \A j \in 0..(i - 1) : ~OccursAt(s, t, j)
    ELSE -1

\* Array.prototype.includes on a sequence.
SeqIncludes(seq, x) == \E i \in 1..Len(seq) : seq[i] = x

\* The assertion \b at the 0-based offset i of s: exactly one of the
\* characters before and after the offset is a word character.
WordBoundaryAt(s, i) ==
  LET before == i >= 1 /\ i <= Len(s) /\ IsWordChar(s[i])
      after == i >= 0 /\ i < Len(s) /\ IsWordChar(s[i + 1])
  IN before # after

\* The nesting depth of the parentheses of a pattern read from depth on,
\* or -1 when a ")" closes no group.
RECURSIVE ParenDepth(_, _)
ParenDepth(pattern, depth) ==
  IF pattern = <<>> THEN depth
  ELSE IF Head(pattern) = "(" THEN ParenDepth(Tail(pattern), depth + 1)
  ELSE IF Head(pattern) = ")"
    THEN (IF depth = 0 THEN -1 ELSE ParenDepth(Tail(pattern), depth - 1))
  ELSE ParenDepth(Tail(pattern), depth)

\* Whether new RegExp(`\\b${token}\\b`, "i") throws a SyntaxError, for a
\* token of letters, digits, "_" and parentheses: it does when a group is
\* not terminated or a ")" is unmatched.  (Other pattern characters of a
\* token, such as "[", "*" or "?", are outside this model.)
RegExpSyntaxError(token) == ParenDepth(token, 0) # 0

\* Mutant of WordBoundaryTest: the \b assertions are dropped, any
\* case-insensitive occurrence counts.
WordBoundaryTestAsSubstring(s, token) ==
  Includes(ToLowerCase(s), ToLowerCase(token))

\* new RegExp(`\\b${token}\\b`, "i").test(s) for a token made of literal
\* characters (letters, digits, "_"): a case-insensitive occurrence of the
\* token with a word boundary on each side.
WordBoundaryTest(s, token) ==
  LET lowerS == ToLowerCase(s)
      lowerToken == ToLowerCase(token)
  IN \E i \in 0..(Len(s) - Len(token)) :
       /\ OccursAt(lowerS, lowerToken, i)
       /\ WordBoundaryAt(s, i)
       /\ WordBoundaryAt(s, i + Len(token))

(***************************************************************************)
(* The search engine: synonym expansion and scoring.                       *)
(***************************************************************************)
\* The synonym table, in the order of its entries.
SEARCH_SYNONYMS ==
  <<
    [key |-> <<"d","b">>,
     synonyms |-> <<<<"d","u","m","b","b","e","l","l">>,
                    <<"d","u","m","b","e","l","l">>>>],
    [key |-> <<"b","b">>,
     synonyms |-> <<<<"b","a","r","b","e","l","l">>,
                    <<"b","a","r","b","e","l">>>>],
    [key |-> <<"m","a","c","h","i","n","e">>,
     synonyms |-> <<<<"m","a","c","h">>,
                    <<"a","s","s","i","s","t","e","d">>>>],
    [key |-> <<"c","a","b","l","e">>,
     synonyms |-> <<<<"c","a","b","l","e","s">>>>],
    [key |-> <<"l","a","t">>,
     synonyms |-> <<<<"l","a","t","s">>,
                    <<"l","a","t","e","r","a","l">>>>],
    [key |-> <<"b","i">>,
     synonyms |-> <<<<"b","i","c","e","p">>,
                    <<"b","i","c","e","p","s">>>>],
    [key |-> <<"t","r","i">>,
     synonyms |-> <<<<"t","r","i","c","e","p">>,
                    <<"t","r","i","c","e","p","s">>>>],
    [key |-> <<"l","e","g">>,
     synonyms |-> <<<<"l","e","g","s">>>>],
    [key |-> <<"c","h","e","s","t">>,
     synonyms |-> <<<<"p","e","c">>,
                    <<"p","e","c","s">>,
                    <<"p","e","c","t","o","r","a","l">>>>],
    [key |-> <<"b","a","c","k">>,
     synonyms |-> <<<<"l","a","t","s">>,
                    <<"r","e","a","r">>>>],
    [key |-> <<"s","h","o","u","l","d","e","r">>,
     synonyms |-> <<<<"s","h","o","u","l","d","e","r","s">>,
                    <<"d","e","l","t">>,
                    <<"d","e","l","t","s">>,
                    <<"d","e","l","t","o","i","d">>>>]
  >>

\* The key and synonyms the table entry e contributes for the token.
SynonymsOfEntry(token, e) ==
  IF token = e.key \/ SeqIncludes(e.synonyms, token)
    THEN <<e.key>> \o e.synonyms
    ELSE <<>>

\* The inner loop over the table entries k..Len(SEARCH_SYNONYMS) for a token.
RECURSIVE SynonymsOfToken(_, _)
SynonymsOfToken(token, k) ==
  IF k > Len(SEARCH_SYNONYMS) THEN <<>>
  ELSE SynonymsOfEntry(token, SEARCH_SYNONYMS[k]) \o SynonymsOfToken(token, k + 1)

\* The outer loop over the tokens.
RECURSIVE SynonymsOfTokens(_)
SynonymsOfTokens(tokens) ==
  IF tokens = <<>> THEN <<>>
  ELSE SynonymsOfToken(Head(tokens), 1) \o SynonymsOfTokens(Tail(tokens))

\* [...new Set(seq)]: the first occurrence of each element, in order.
RECURSIVE RemoveDuplicates(_, _)
RemoveDuplicates(seq, seen) ==
  IF seq = <<>> THEN seen
  ELSE IF SeqIncludes(seen, Head(seq))
    THEN RemoveDuplicates(Tail(seq), seen)
    ELSE RemoveDuplicates(Tail(seq), Append(seen, Head(seq)))

expandTokensWithSynonyms(tokens) ==
  RemoveDuplicates(tokens \o SynonymsOfTokens(tokens), <<>>)

\* secondary_muscle_groups?.map((m) => m.toLowerCase()) || [].
LowerSecondary(exercise) ==
  IF IsSome(exercise.secondary_muscle_groups)
    THEN [i \in 1..Len(Get(exercise.secondary_muscle_groups)) |->
            ToLowerCase(Get(exercise.secondary_muscle_groups)[i])]
    ELSE <<>>

\* Whether the title match of one expanded token throws: the pattern is
\* built, unescaped, from a token the title contains.
TitleMatchThrows(title, token) ==
  Includes(title, token) /\ RegExpSyntaxError(token)

\* What one expanded token adds to the score of an exercise.
TitlePoints(title, token, isOriginalToken) ==
  IF Includes(title, token)
    THEN (IF WordBoundaryTest(title, token)
            THEN (IF isOriginalToken THEN 100 ELSE 60)
            ELSE (IF isOriginalToken THEN 50 ELSE 30))
         + (LET position == IndexOf(title, token)
            IN IF position = 0 THEN 30
               ELSE IF position < 10 THEN 15 ELSE 0)
    ELSE 0

TypePoints(type, token, isOriginalToken) ==
  IF Includes(type, token) THEN (IF isOriginalToken THEN 40 ELSE 25) ELSE 0

PrimaryPoints(primaryMuscle, token, isOriginalToken) ==
  IF Includes(primaryMuscle, token)
    THEN (IF isOriginalToken THEN 30 ELSE 20)
    ELSE 0

SecondaryPoints(secondaryMuscles, token, isOriginalToken) ==
  IF \E i \in 1..Len(secondaryMuscles) : Includes(secondaryMuscles[i], token)
    THEN (IF isOriginalToken THEN 20 ELSE 10)
    ELSE 0

\* The lowercased fields of an exercise the score is computed from.
ScoredFields(exercise) ==
  [title |-> ToLowerCase(exercise.title),
   type |-> ToLowerCase(exercise.type),
   primaryMuscle |-> ToLowerCase(exercise.primary_muscle_group),
   secondaryMuscles |-> LowerSecondary(exercise)]

\* Whether some field contains the token.
AnyFieldIncludes(f, token) ==
  \/ Includes(f.title, token)
  \/ Includes(f.type, token)
  \/ Includes(f.primaryMuscle, token)
  \/ \E i \in 1..Len(f.secondaryMuscles) : Includes(f.secondaryMuscles[i], token)

\* What one iteration of the loop adds to the score.
TokenPoints(f, tokens, token) ==
  TitlePoints(f.title, token, SeqIncludes(tokens, token))
  + TypePoints(f.type, token, SeqIncludes(tokens, token))
  + PrimaryPoints(f.primaryMuscle, token, SeqIncludes(tokens, token))
  + SecondaryPoints(f.secondaryMuscles, token, SeqIncludes(tokens, token))

\* The loop over the expanded tokens k..Len(expandedTokens): the raw score.
RECURSIVE RawScore(_, _, _, _)
RawScore(f, tokens, expandedTokens, k) ==
  IF k > Len(expandedTokens) THEN 0
  ELSE TokenPoints(f, tokens, expandedTokens[k])
       + RawScore(f, tokens, expandedTokens, k + 1)

\* originalTokenMatches after the loop: a token is added only on an
\* iteration whose token is itself an original token and occurs in a field.
originalTokenMatches(f, tokens, expandedTokens) ==
  {token \in {expandedTokens[k] : k \in 1..Len(expandedTokens)} :
     SeqIncludes(tokens, token) /\ AnyFieldIncludes(f, token)}

\* The score from the loop's results, as the numerator of the score over
\* the denominator originalTokenCount: the code multiplies by the fraction
\* matchedOriginalTokens / originalTokenCount, so the score times
\* originalTokenCount is an integer.  Scores of one search share the
\* denominator, so they compare as their numerators do.
AdjustedScore(raw, matchedOriginalTokens, originalTokenCount, phraseInTitle) ==
  (IF matchedOriginalTokens < originalTokenCount
     THEN raw * matchedOriginalTokens
     ELSE raw * originalTokenCount)
  + (IF matchedOriginalTokens = originalTokenCount /\ originalTokenCount > 1
       THEN 50 * originalTokenCount
       ELSE 0)
  + (IF phraseInTitle THEN 200 * originalTokenCount ELSE 0)

ScoreOfFields(f, tokens, expandedTokens) ==
  AdjustedScore(RawScore(f, tokens, expandedTokens, 1),
                Cardinality(originalTokenMatches(f, tokens, expandedTokens)),
                Len(tokens),
                Includes(f.title, JoinSpace(tokens)))

\* calculateSearchScore(exercise, tokens) times tokens.length.
calculateSearchScore(exercise, tokens) ==
  ScoreOfFields(ScoredFields(exercise), tokens, expandTokensWithSynonyms(tokens))

\* Whether calculateSearchScore(exercise, tokens) throws instead of
\* returning: some iteration of its loop does.
calculateSearchScoreThrows(exercise, tokens) ==
  LET expandedTokens == expandTokensWithSynonyms(tokens)
      title == ToLowerCase(exercise.title)
  IN \E k \in 1..Len(expandedTokens) :
       TitleMatchThrows(title, expandedTokens[k])

(***************************************************************************)
(* The search engine: ranking and filters.                                 *)
(***************************************************************************)
\* Whether results.map(...) throws: scoring some exercise does.
ScoringThrows(exercises, normalizedQuery) ==
  /\ normalizedQuery # <<>>
  /\ \E i \in 1..Len(exercises) :
       calculateSearchScoreThrows(exercises[i],
                                  SplitWhitespace(normalizedQuery))

\* results.map((exercise) => ({exercise, score})).
ScoreAll(exercises, tokens) ==
  [i \in 1..Len(exercises) |->
     [exercise |-> exercises[i],
      score |-> calculateSearchScore(exercises[i], tokens)]]

\* Mutant of InsertByScore: the item goes before the elements of equal
\* score, which reverses ties.
RECURSIVE InsertByScoreBeforeTies(_, _)
InsertByScoreBeforeTies(sorted, item) ==
  IF sorted = <<>> THEN <<item>>
  ELSE IF Head(sorted).score > item.score
    THEN <<Head(sorted)>> \o InsertByScoreBeforeTies(Tail(sorted), item)
    ELSE <<item>> \o sorted

\* The place of item in a sequence already sorted by score, descending:
\* after every element whose score is not lower (the sort is stable).
RECURSIVE InsertByScore(_, _)
InsertByScore(sorted, item) ==
  IF sorted = <<>> THEN <<item>>
  ELSE IF Head(sorted).score >= item.score
    THEN <<Head(sorted)>> \o InsertByScore(Tail(sorted), item)
    ELSE <<item>> \o sorted

\* Array.prototype.sort((a, b) => b.score - a.score), a stable sort.
RECURSIVE SortByScore(_, _)
SortByScore(items, sorted) ==
  IF items = <<>> THEN sorted
  ELSE SortByScore(Tail(items), InsertByScore(sorted, Head(items)))

PositiveScore(item) == item.score > 0

\* .map((item) => item.exercise).
ExercisesOf(items) == [i \in 1..Len(items) |-> items[i].exercise]

\* The scored, filtered and sorted exercises of a non-empty query.
RankedExercises(exercises, tokens) ==
  ExercisesOf(
    SortByScore(SelectSeq(ScoreAll(exercises, tokens), PositiveScore), <<>>))

\* Whether an optional string option is given and not empty.
Truthy(option) == IsSome(option) /\ Get(option) # <<>>

\* Mutant of MuscleGroupMatches: the secondary muscle groups are not looked at.
MuscleGroupMatchesPrimaryOnly(exercise, muscleGroup) ==
  ToLowerCase(exercise.primary_muscle_group) = ToLowerCase(muscleGroup)

MuscleGroupMatches(exercise, muscleGroup) ==
  \/ ToLowerCase(exercise.primary_muscle_group) = ToLowerCase(muscleGroup)
  \/ /\ IsSome(exercise.secondary_muscle_groups)
     /\ \E i \in 1..Len(Get(exercise.secondary_muscle_groups)) :
          ToLowerCase(Get(exercise.secondary_muscle_groups)[i])
            = ToLowerCase(muscleGroup)

ExerciseTypeMatches(exercise, exerciseType) ==
  ToLowerCase(exercise.type) = ToLowerCase(exerciseType)

FilterByMuscleGroup(results, options) ==
  IF Truthy(options.muscleGroup)
    THEN LET Keep(exercise) ==
               MuscleGroupMatches(exercise, Get(options.muscleGroup))
         IN SelectSeq(results, Keep)
    ELSE results

FilterByExerciseType(results, options) ==
  IF Truthy(options.exerciseType)
    THEN LET Keep(exercise) ==
               ExerciseTypeMatches(exercise, Get(options.exerciseType))
         IN SelectSeq(results, Keep)
    ELSE results

\* query.toLowerCase().trim().
NormalizedQuery(query) == Trim(ToLowerCase(query))

\* The tokens of a query.
QueryTokens(query) == SplitWhitespace(NormalizedQuery(query))

\* Mutant of ResultsOfQuery: the empty query is scored like any other.
ResultsOfQueryAlwaysRanked(exercises, normalizedQuery) ==
  RankedExercises(exercises, SplitWhitespace(normalizedQuery))

\* The results before the filters, from the normalized query.
ResultsOfQuery(exercises, normalizedQuery) ==
  IF normalizedQuery # <<>>
    THEN RankedExercises(exercises, SplitWhitespace(normalizedQuery))
    ELSE exercises

\* The body of searchExercises on an initialized cache.
SearchResults(exercises, query, options) ==
  FilterByExerciseType(
    FilterByMuscleGroup(ResultsOfQuery(exercises, NormalizedQuery(query)),
                        options),
    options)

NoOptions == [muscleGroup |-> None, exerciseType |-> None]

(***************************************************************************)
(* The cache manager: state.                                               *)
(***************************************************************************)
VARIABLES
  cache,       \* the module-level cache object
  now,         \* Date.now()
  ticks,       \* how many times the clock has advanced
  calls,       \* per caller, the suspended initializeCache call, if any
  provenance,  \* history: what the remote source returned for the snapshot
  lastOp,      \* the operation the last step completed: its arguments and
               \* what it returned or threw
  cacheInitialized,  \* the flag of the tool layer (tools/templates.ts)
  handlers,    \* per caller, the suspended search-exercises handler, if any
  cleared      \* history: the callers whose call in progress has seen a
               \* clearCache

vars ==
  <<cache, now, ticks, calls, provenance, lastOp, cacheInitialized, handlers,
    cleared>>

\* The state of the tool layer, which the cache module never touches.
toolVars == <<cacheInitialized, handlers>>

\* The tool layer and the history of clears.
outerVars == <<toolVars, cleared>>

CACHE_TTL == 1000 * 60 * 60 * 24

\* Date.now() at process start.  Any real clock reads more than one TTL
\* after the epoch; the value keeps every time within TLC's integers.
StartTime == 2 * CACHE_TTL

\* The steps by which the clock advances: a millisecond, or a whole TTL.
TickSteps == {1, CACHE_TTL}

\* The exercise on a page of the remote catalog.
RemoteItem(page) == RemoteCatalog[((page - 1) % Len(RemoteCatalog)) + 1]

\* What getExerciseTemplates({page, pageSize}) may resolve to: the page's
\* exercise with any page_count or none; or, for page 1 of an empty catalog,
\* no exercise_templates and no pages.
Responses(page) ==
  [page_count : {None} \cup {Some(n) : n \in 0..MaxPages},
   exercise_templates : {Some(<<RemoteItem(page)>>)}]
  \cup (IF page = 1
          THEN [page_count : {None, Some(0)}, exercise_templates : {None}]
          ELSE {})

\* The messages getExerciseTemplates may reject with.
FetchErrors == {"Request timed out", "HTTP 429"}

InitialCache == [exercises |-> <<>>, lastUpdated |-> 0, isInitialized |-> FALSE]

\* const pageSize = 100.
pageSize == 100

\* The argument of a getExerciseTemplates call.
Request(page) == [page |-> page, pageSize |-> pageSize]

\* A caller with no initializeCache call in progress.
\* received, fetched and requested are history: the items of the responses
\* the call has received, in the order received, the number of those
\* responses, and the requests the call has issued, in the order issued.
IdleCall ==
  [pc |-> "idle", allExercises |-> <<>>, currentPage |-> 1, totalPages |-> 1,
   received |-> <<>>, fetched |-> 0, requested |-> <<>>]

NoStats ==
  [totalExercises |-> 0, lastUpdated |-> None, isInitialized |-> FALSE,
   cacheAge |-> 0]

\* lastOp after a step that completes no operation.
NoOp ==
  [op |-> "none", caller |-> 0, query |-> <<>>, options |-> NoOptions,
   status |-> "none", items |-> <<>>, stats |-> NoStats, message |-> <<>>]

Outcome(op, caller, status) ==
  [NoOp EXCEPT !.op = op, !.caller = caller, !.status = status]

NoProvenance ==
  [committed |-> FALSE, received |-> <<>>, fetched |-> 0, totalPages |-> 0,
   time |-> 0, requested |-> <<>>]

\* A caller with no search-exercises handler in progress.
NoHandler == [pc |-> "none", query |-> <<>>, options |-> NoOptions]

Init ==
  /\ cache = InitialCache
  /\ now = StartTime
  /\ ticks = 0
  /\ calls = [c \in Callers |-> IdleCall]
  /\ provenance = NoProvenance
  /\ lastOp = NoOp
  /\ cacheInitialized = FALSE
  /\ handlers = [c \in Callers |-> NoHandler]
  /\ cleared = {}

(***************************************************************************)
(* initializeCache.                                                        *)
(***************************************************************************)
\* Mutants of cacheExpired: the comparison off by one, and a doubled TTL.
cacheExpiredAtTTL(t) == t - cache.lastUpdated >= CACHE_TTL
cacheExpiredLate(t) == t - cache.lastUpdated > 2 * CACHE_TTL

\* const cacheExpired = now - cache.lastUpdated > CACHE_TTL, at the time t.
cacheExpired(t) == t - cache.lastUpdated > CACHE_TTL

\* The condition of the early return.
CacheIsFresh(forceRefresh, t) ==
  cache.isInitialized /\ ~cacheExpired(t) /\ ~forceRefresh

\* if (data.exercise_templates) allExercises.push(...data.exercise_templates).
PushTemplates(allExercises, data) ==
  IF IsSome(data.exercise_templates)
    THEN allExercises \o Get(data.exercise_templates)
    ELSE allExercises

\* Mutant of TotalPagesOf: the default is two pages.
TotalPagesOfDefaultsToTwo(data) ==
  IF IsSome(data.page_count) /\ Get(data.page_count) # 0
    THEN Get(data.page_count)
    ELSE 2

\* totalPages = firstPageData.page_count || 1.
TotalPagesOf(data) ==
  IF IsSome(data.page_count) /\ Get(data.page_count) # 0
    THEN Get(data.page_count)
    ELSE 1

\* Mutant of LoopContinues: the loop runs one page past the last.
LoopRunsPastLastPage(currentPage, totalPages) == currentPage <= totalPages + 1

\* Mutant of LoopContinues: the last page is never fetched.
LoopStopsEarly(currentPage, totalPages) == currentPage < totalPages

\* The loop condition currentPage <= totalPages.
LoopContinues(currentPage, totalPages) == currentPage <= totalPages

\* cache.exercises = allExercises; cache.lastUpdated = Date.now();
\* cache.isInitialized = true.
UpdatedCache(allExercises, t) ==
  [exercises |-> allExercises, lastUpdated |-> t, isInitialized |-> TRUE]

\* The items of a response, as the remote source sent them.
ItemsOf(data) ==
  IF IsSome(data.exercise_templates) THEN Get(data.exercise_templates) ELSE <<>>

\* The call of caller c, with its buffer all, reaches the loop condition
\* with currentPage after received (the items of fetched responses): it
\* either issues the fetch of that page and suspends, or leaves the loop,
\* updates the cache and returns.
LoopOrCommit(c, all, received, fetched, currentPage, totalPages) ==
  IF LoopContinues(currentPage, totalPages)
    THEN /\ calls' = [calls EXCEPT ![c] =
                        [pc |-> "awaitPage", allExercises |-> all,
                         currentPage |-> currentPage,
                         totalPages |-> totalPages,
                         received |-> received, fetched |-> fetched,
                         requested |->
                           Append(calls[c].requested, Request(currentPage))]]
         /\ lastOp' = NoOp
         /\ UNCHANGED <<cache, provenance>>
    ELSE /\ cache' = UpdatedCache(all, now)
         /\ provenance' = [committed |-> TRUE, received |-> received,
                            fetched |-> fetched, totalPages |-> totalPages,
                            time |-> now, requested |-> calls[c].requested]
         /\ calls' = [calls EXCEPT ![c] = IdleCall]
         /\ lastOp' = Outcome("initializeCache", c, "updated")

\* A caller calls initializeCache: the early return, or the fetch of page 1.
InitializeCache(c, forceRefresh) ==
  /\ calls[c].pc = "idle"
  /\ IF CacheIsFresh(forceRefresh, now)
       THEN /\ lastOp' = Outcome("initializeCache", c, "fresh")
            /\ UNCHANGED calls
       ELSE /\ calls' = [calls EXCEPT ![c] =
                           [IdleCall EXCEPT !.pc = "awaitFirstPage",
                                            !.requested = <<Request(1)>>]]
            /\ lastOp' = NoOp
  /\ UNCHANGED <<cache, now, ticks, provenance>>

\* The fetch of page 1 resolves with data.
FirstPageArrives(c, data) ==
  /\ calls[c].pc = "awaitFirstPage"
  /\ LoopOrCommit(c, PushTemplates(calls[c].allExercises, data),
                  calls[c].received \o ItemsOf(data), calls[c].fetched + 1,
                  2, TotalPagesOf(data))
  /\ UNCHANGED <<now, ticks>>

\* The fetch of a later page resolves with data; the call then waits for
\* the 100 ms timer.
PageArrives(c, data) ==
  /\ calls[c].pc = "awaitPage"
  /\ calls' = [calls EXCEPT ![c].pc = "delay",
                            ![c].allExercises = PushTemplates(@, data),
                            ![c].received = @ \o ItemsOf(data),
                            ![c].fetched = @ + 1]
  /\ lastOp' = NoOp
  /\ UNCHANGED <<cache, now, ticks, provenance>>

\* The timer fires: currentPage++ and the loop condition.
DelayElapses(c) ==
  /\ calls[c].pc = "delay"
  /\ LoopOrCommit(c, calls[c].allExercises, calls[c].received,
                  calls[c].fetched, calls[c].currentPage + 1,
                  calls[c].totalPages)
  /\ UNCHANGED <<now, ticks>>

\* Mutant of CacheAfterFailure: the catch block resets the cache.
CacheResetOnFailure ==
  [exercises |-> <<>>, lastUpdated |-> 0, isInitialized |-> FALSE]

\* What the catch block does to the cache.
CacheAfterFailure == cache

\* Mutant of ErrorMessage: the cause is dropped.
ErrorMessageWithoutCause(cause) ==
  <<"Failed to initialize exercise cache: ", "unknown error">>

\* The message of the error the catch block throws.
ErrorMessage(cause) == <<"Failed to initialize exercise cache: ", cause>>

\* A fetch rejects: the catch block throws the wrapped error.
FetchFails(c, cause) ==
  /\ calls[c].pc \in {"awaitFirstPage", "awaitPage"}
  /\ calls' = [calls EXCEPT ![c] = IdleCall]
  /\ cache' = CacheAfterFailure
  /\ lastOp' = [Outcome("initializeCache", c, "error") EXCEPT
                  !.message = ErrorMessage(cause)]
  /\ UNCHANGED <<now, ticks, provenance>>

(***************************************************************************)
(* The readers, clearCache and the clock.                                  *)
(***************************************************************************)
NotInitializedMessage ==
  <<"Exercise cache not initialized. Call initializeCache() first.">>

\* Queries and filters the callers of the cache behaviours search with.
Q_bb_press == <<"b","b"," ","p","r","e","s","s">>
Q_blank == <<" ">>
CacheSearches ==
  {[query |-> Q_bb_press, options |-> NoOptions],
   [query |-> Q_blank,
    options |-> [muscleGroup |-> Some(S_biceps), exerciseType |-> None]]}

\* Mutant of getCachedExercises: the guard is missing.
getCachedExercisesUnguarded ==
  [Outcome("getCachedExercises", 0, "ok") EXCEPT !.items = cache.exercises]

\* getCachedExercises: what it throws or returns.
getCachedExercises ==
  IF ~cache.isInitialized
    THEN [Outcome("getCachedExercises", 0, "NotInitialized") EXCEPT
            !.message = NotInitializedMessage]
    ELSE [Outcome("getCachedExercises", 0, "ok") EXCEPT
            !.items = cache.exercises]

\* The start of the message of the SyntaxError the RegExp constructor throws.
InvalidRegExpMessage == <<"Invalid regular expression">>

\* searchExercises: what it throws or returns.
searchExercises(query, options) ==
  IF ~cache.isInitialized
    THEN [Outcome("searchExercises", 0, "NotInitialized") EXCEPT
            !.query = query, !.options = options,
            !.message = NotInitializedMessage]
    ELSE IF ScoringThrows(cache.exercises, NormalizedQuery(query))
    THEN [Outcome("searchExercises", 0, "SyntaxError") EXCEPT
            !.query = query, !.options = options,
            !.message = InvalidRegExpMessage]
    ELSE [Outcome("searchExercises", 0, "ok") EXCEPT
            !.query = query, !.options = options,
            !.items = SearchResults(cache.exercises, query, options)]

\* Mutant of getCacheStats: the age is computed whatever isInitialized is.
getCacheStatsUnguardedAge(t) ==
  [Outcome("getCacheStats", 0, "ok") EXCEPT
     !.stats = [totalExercises |-> Len(cache.exercises),
                lastUpdated |-> IF cache.isInitialized
                                  THEN Some(cache.lastUpdated)
                                  ELSE None,
                isInitialized |-> cache.isInitialized,
                cacheAge |-> t - cache.lastUpdated]]

\* getCacheStats at the time t; new Date(ms) is its milliseconds.
getCacheStats(t) ==
  [Outcome("getCacheStats", 0, "ok") EXCEPT
     !.stats = [totalExercises |-> Len(cache.exercises),
                lastUpdated |-> IF cache.isInitialized
                                  THEN Some(cache.lastUpdated)
                                  ELSE None,
                isInitialized |-> cache.isInitialized,
                cacheAge |-> IF cache.isInitialized
                               THEN t - cache.lastUpdated
                               ELSE 0]]

\* Mutant of CacheAfterRead: a read counts as a use and renews the timestamp.
CacheTouchedByRead == [cache EXCEPT !.lastUpdated = now]

\* What a reader leaves in the cache.
CacheAfterRead == cache

CallGetCachedExercises ==
  /\ lastOp' = getCachedExercises
  /\ cache' = CacheAfterRead
  /\ UNCHANGED <<now, ticks, calls, provenance>>

CallSearchExercises(query, options) ==
  /\ lastOp' = searchExercises(query, options)
  /\ cache' = CacheAfterRead
  /\ UNCHANGED <<now, ticks, calls, provenance>>

CallGetCacheStats ==
  /\ lastOp' = getCacheStats(now)
  /\ cache' = CacheAfterRead
  /\ UNCHANGED <<now, ticks, calls, provenance>>

\* Mutant of ClearedCache: lastUpdated is not reset.
ClearedCacheKeepsTimestamp ==
  [exercises |-> <<>>, lastUpdated |-> cache.lastUpdated,
   isInitialized |-> FALSE]

\* clearCache: the cache it leaves.
ClearedCache == [exercises |-> <<>>, lastUpdated |-> 0, isInitialized |-> FALSE]

ClearCache ==
  /\ cache' = ClearedCache
  /\ provenance' = NoProvenance
  /\ lastOp' = Outcome("clearCache", 0, "ok")
  /\ UNCHANGED <<now, ticks, calls>>

\* Time passes.
Tick(d) ==
  /\ ticks < MaxTicks
  /\ now' = now + d
  /\ ticks' = ticks + 1
  /\ lastOp' = NoOp
  /\ UNCHANGED <<cache, calls, provenance>>

\* The behaviours of the cache module under direct calls of its exported
\* functions; the tool layer takes no step.
Next ==
  \/ \E c \in Callers, forceRefresh \in BOOLEAN :
       InitializeCache(c, forceRefresh) /\ UNCHANGED outerVars
  \/ \E c \in Callers, data \in Responses(1) :
       FirstPageArrives(c, data) /\ UNCHANGED outerVars
  \/ \E c \in Callers : \E data \in Responses(calls[c].currentPage) :
       PageArrives(c, data) /\ UNCHANGED outerVars
  \/ \E c \in Callers : DelayElapses(c) /\ UNCHANGED outerVars
  \/ \E c \in Callers, cause \in FetchErrors :
       FetchFails(c, cause) /\ UNCHANGED outerVars
  \/ CallGetCachedExercises /\ UNCHANGED outerVars
  \/ \E search \in CacheSearches :
       CallSearchExercises(search.query, search.options) /\ UNCHANGED outerVars
  \/ CallGetCacheStats /\ UNCHANGED outerVars
  \/ ClearCache /\ UNCHANGED outerVars
  \/ \E d \in TickSteps : Tick(d) /\ UNCHANGED outerVars

Spec == Init /\ [][Next]_vars

(***************************************************************************)
(* Properties of the cache manager.                                        *)
(***************************************************************************)
ReadOps == {"getCachedExercises", "searchExercises", "getCacheStats"}

\* The callers with a getExerciseTemplates call awaiting its response.
Fetching == {c \in Callers : calls[c].pc \in {"awaitFirstPage", "awaitPage"}}

\* The callers with an initializeCache call in progress.
Refreshing == {c \in Callers : calls[c].pc # "idle"}

\* C1: a call of initializeCache without forceRefresh on an initialized
\* cache at most one TTL old returns at once: it issues no fetch and leaves
\* the cache as it is; so a call without forceRefresh that directly follows
\* a completed refresh fetches nothing.
C1_FreshCacheIsNotRefetched ==
  [][\A c \in Callers :
       /\ ( /\ InitializeCache(c, FALSE)
            /\ cache.isInitialized
            /\ now - cache.lastUpdated <= CACHE_TTL )
          => /\ lastOp'.status = "fresh"
             /\ calls' = calls
             /\ cache' = cache
       /\ (InitializeCache(c, FALSE) /\ lastOp.status = "updated")
          => (Fetching' = Fetching /\ calls' = calls /\ cache' = cache)
    ]_vars

\* C1 witness: a call has returned at once on a cache exactly one TTL old.
C1_Witness ==
  /\ lastOp.op = "initializeCache"
  /\ lastOp.status = "fresh"
  /\ cache.isInitialized
  /\ now - cache.lastUpdated = CACHE_TTL

\* C2: a failing fetch, of page 1 or of a later page, ends the call with
\* the initialization error that carries the cause's message; that step,
\* and every step of a call before it, leaves the cache as it is.
C2_FailedRefreshKeepsSnapshot ==
  [][\A c \in Callers :
       /\ \A cause \in FetchErrors :
            FetchFails(c, cause)
            => /\ lastOp'.op = "initializeCache"
               /\ lastOp'.status = "error"
               /\ lastOp'.message
                    = <<"Failed to initialize exercise cache: ", cause>>
               /\ cache' = cache
               /\ calls'[c].pc = "idle"
       /\ (calls'[c] # calls[c] /\ lastOp'.status # "updated")
          => cache' = cache
    ]_vars

\* C2 witness: a refresh of an initialized, non-empty cache has failed and
\* the cache is still initialized and non-empty.
C2_Witness ==
  /\ lastOp.op = "initializeCache"
  /\ lastOp.status = "error"
  /\ cache.isInitialized
  /\ Len(cache.exercises) = 2

\* C3: an initialized cache holds the items of every page 1..totalPages of
\* one completed refresh, in the order received, with the time of that
\* refresh's update.
C3_SnapshotIsOneCompleteRefresh ==
  cache.isInitialized
  => /\ provenance.committed
     /\ provenance.fetched = provenance.totalPages
     /\ cache.exercises = provenance.received
     /\ cache.lastUpdated = provenance.time

\* C3 witness: a two-page snapshot is committed while both callers have a
\* refresh in progress, one of them with a buffer that is not complete.
C3_Witness ==
  /\ cache.isInitialized
  /\ provenance.totalPages = 2
  /\ Len(cache.exercises) = 2
  /\ Refreshing = Callers
  /\ \E c \in Callers : calls[c].pc = "awaitPage" /\ Len(calls[c].allExercises) = 1

\* C4 (as claimed): at most one getExerciseTemplates call is awaiting its
\* response.
C4_AtMostOneFetchInFlight == Cardinality(Fetching) <= 1

\* C5: a call of initializeCache on a cache that is not initialized, or
\* with forceRefresh, or on a cache more than one TTL old, issues the fetch
\* of page 1; that step leaves the cache as it is, and getCachedExercises
\* and searchExercises on an initialized cache return from its exercises
\* however old it is and whatever refresh is in progress.
C5_StaleSnapshotRefreshesAndStaysReadable ==
  [][/\ \A c \in Callers, forceRefresh \in BOOLEAN :
          ( /\ InitializeCache(c, forceRefresh)
            /\ \/ ~cache.isInitialized
               \/ forceRefresh
               \/ now - cache.lastUpdated > CACHE_TTL )
          => /\ calls'[c].pc = "awaitFirstPage"
             /\ calls'[c].currentPage = 1
             /\ c \in Fetching'
             /\ cache' = cache
     /\ (cache.isInitialized /\ lastOp'.op = "getCachedExercises")
        => (lastOp'.status = "ok" /\ lastOp'.items = cache.exercises)
     /\ (cache.isInitialized /\ lastOp'.op = "searchExercises")
        => /\ lastOp'.status = "ok"
           /\ lastOp'.items
                = SearchResults(cache.exercises, lastOp'.query, lastOp'.options)
    ]_vars

\* C5 witness: getCachedExercises has returned the exercises of a cache
\* more than one TTL old while the refresh that age triggered is fetching.
C5_Witness ==
  /\ cache.isInitialized
  /\ now - cache.lastUpdated > CACHE_TTL
  /\ Fetching # {}
  /\ lastOp.op = "getCachedExercises"
  /\ lastOp.status = "ok"
  /\ lastOp.items = cache.exercises
  /\ Len(lastOp.items) > 0

C7_ClearAndStats ==
  /\ [](ENABLED ClearCache)
  /\ [][/\ lastOp'.op = "clearCache"
           => /\ lastOp'.status = "ok"
              /\ cache' = [exercises |-> <<>>, lastUpdated |-> 0,
                           isInitialized |-> FALSE]
        /\ lastOp'.op = "getCacheStats"
           => /\ lastOp'.status = "ok"
              /\ lastOp'.stats.isInitialized = cache.isInitialized
              /\ ~cache.isInitialized
                 => /\ lastOp'.stats.lastUpdated = None
                    /\ lastOp'.stats.cacheAge = 0
              /\ cache.isInitialized
                 => /\ lastOp'.stats.totalExercises = Len(cache.exercises)
                    /\ lastOp'.stats.lastUpdated = Some(cache.lastUpdated)
                    /\ lastOp'.stats.cacheAge = now - cache.lastUpdated
       ]_vars

\* C7 witness: getCacheStats has reported a two-exercise cache one TTL and
\* a millisecond old.
C7_Witness ==
  /\ lastOp.op = "getCacheStats"
  /\ lastOp.stats.isInitialized
  /\ lastOp.stats.totalExercises = 2
  /\ lastOp.stats.cacheAge = CACHE_TTL + 1

\* C8: searchExercises, getCachedExercises and getCacheStats, whether they
\* return or throw, issue no fetch and leave the cache as it is.
C8_ReadsChangeNothing ==
  [][lastOp'.op \in ReadOps
       => /\ cache' = cache
          /\ calls' = calls
          /\ Fetching' = Fetching
    ]_vars

\* C8 witness: searchExercises has returned a result while a refresh is in
\* progress.
C8_Witness ==
  /\ lastOp.op = "searchExercises"
  /\ lastOp.status = "ok"
  /\ Len(lastOp.items) > 0
  /\ Refreshing # {}

(***************************************************************************)
(* The search engine on its own: searchExercises applied to catalogs and   *)
(* queries drawn from bounded sets.                                        *)
(***************************************************************************)
\* Longest catalog searched.
MaxCatalog == 2

SearchExercisePool ==
  {E_BarbellBenchPress, E_DumbbellCurl, E_LatPulldown, E_BenchPressBarbell}

RECURSIVE SeqsUpTo(_, _)
SeqsUpTo(S, n) ==
  IF n = 0 THEN {<<>>}
  ELSE SeqsUpTo(S, n - 1)
       \cup {Append(seq, x) : seq \in {q \in SeqsUpTo(S, n - 1) : Len(q) = n - 1},
                              x \in S}

SearchCatalogs == SeqsUpTo(SearchExercisePool, MaxCatalog)

Q_db == <<"d","b">>
Q_dumbbell == S_dumbbell
Q_curl == <<"c","u","r","l">>
Q_empty == <<>>
Q_BenchPress == <<" ","B","e","n","c","h"," "," ","P","R","E","S","S","\t">>
Q_press_press == <<"p","r","e","s","s"," ","p","r","e","s","s">>
Q_chest == S_chest
Q_paren == <<"(">>
SearchQueries ==
  {Q_bb_press, Q_db, Q_dumbbell, Q_curl, Q_empty, Q_blank, Q_BenchPress,
   Q_press_press, Q_chest, Q_paren}

SearchOptions ==
  {NoOptions,
   [muscleGroup |-> Some(S_Biceps), exerciseType |-> None],
   [muscleGroup |-> None, exerciseType |-> Some(S_barbell)],
   [muscleGroup |-> Some(S_chest), exerciseType |-> Some(S_barbell)],
   [muscleGroup |-> Some(<<>>), exerciseType |-> None]}

\* The cache after a refresh that fetched the catalog.
SearchInit ==
  /\ \E catalog \in SearchCatalogs :
       /\ cache = UpdatedCache(catalog, StartTime)
       /\ provenance = [committed |-> TRUE, received |-> catalog,
                        fetched |-> 1, totalPages |-> 1, time |-> StartTime,
                        requested |-> <<Request(1)>>]
  /\ now = StartTime
  /\ ticks = 0
  /\ calls = [c \in Callers |-> IdleCall]
  /\ lastOp = NoOp
  /\ cacheInitialized = FALSE
  /\ handlers = [c \in Callers |-> NoHandler]
  /\ cleared = {}

SearchNext ==
  \E query \in SearchQueries, options \in SearchOptions :
    CallSearchExercises(query, options) /\ UNCHANGED outerVars

SearchSpec == SearchInit /\ [][SearchNext]_vars

\* The exercise searched for is in the catalog, and the last step searched
\* with the query and no filter.
Searched(query) ==
  /\ lastOp.op = "searchExercises"
  /\ lastOp.status = "ok"
  /\ lastOp.query = query
  /\ lastOp.options = NoOptions

\* The original tokens an exercise covers when a token counts as matched
\* by itself or by any of its synonym expansions.
CoveredThroughExpansions(f, tokens) ==
  {token \in {tokens[k] : k \in 1..Len(tokens)} :
     \E k \in 1..Len(expandTokensWithSynonyms(<<token>>)) :
       AnyFieldIncludes(f, expandTokensWithSynonyms(<<token>>)[k])}

\* C9 (as claimed): in scoring an exercise, an original token is covered
\* when a field is matched by the token or by one of its expansions; for
\* the query "db", "Dumbbell Curl" has every token covered and is found.
C9_TokenCoveredThroughSynonyms ==
  (lastOp.op = "searchExercises" /\ lastOp.status = "ok"
     /\ NormalizedQuery(lastOp.query) # <<>>)
  => /\ \A i \in 1..Len(cache.exercises) :
          originalTokenMatches(ScoredFields(cache.exercises[i]),
                               QueryTokens(lastOp.query),
                               expandTokensWithSynonyms(QueryTokens(lastOp.query)))
            = CoveredThroughExpansions(ScoredFields(cache.exercises[i]),
                                       QueryTokens(lastOp.query))
     /\ (Searched(Q_db) /\ SeqIncludes(cache.exercises, E_DumbbellCurl))
        => SeqIncludes(lastOp.items, E_DumbbellCurl)

\* The catalog of the scenario.
ScenarioCatalog == <<E_BarbellBenchPress, E_DumbbellCurl>>

\* C10 (as claimed): on the scenario catalog, "bb press" ranks "Barbell
\* Bench Press" first with a score above 0, and "Dumbbell Curl" scores 0.
C10_DumbbellCurlScoresZero ==
  (Searched(Q_bb_press) /\ cache.exercises = ScenarioCatalog)
  => /\ lastOp.items # <<>>
     /\ lastOp.items[1] = E_BarbellBenchPress
     /\ calculateSearchScore(E_BarbellBenchPress, QueryTokens(Q_bb_press)) > 0
     /\ calculateSearchScore(E_DumbbellCurl, QueryTokens(Q_bb_press)) = 0

\* C10 (amended): on the scenario catalog, "bb press" returns "Barbell
\* Bench Press" and then "Dumbbell Curl": the former scores 150 and the
\* latter 52.5, above 0 because "bb" occurs in "dumbbell" (the scores are
\* the numerators over the two original tokens).
C10_BarbellBenchPressRanksFirst ==
  (Searched(Q_bb_press) /\ cache.exercises = ScenarioCatalog)
  => /\ lastOp.items = <<E_BarbellBenchPress, E_DumbbellCurl>>
     /\ Len(QueryTokens(Q_bb_press)) = 2
     /\ calculateSearchScore(E_BarbellBenchPress, QueryTokens(Q_bb_press)) = 300
     /\ calculateSearchScore(E_DumbbellCurl, QueryTokens(Q_bb_press)) = 105

\* C10 witness: "bb press" has been searched on the scenario catalog.
C10_Witness ==
  /\ Searched(Q_bb_press)
  /\ cache.exercises = ScenarioCatalog
  /\ Len(lastOp.items) = 2

(***************************************************************************)
(* Properties of the ranking and the filters.                              *)
(***************************************************************************)
\* The last step searched a non-empty query on an initialized cache and
\* returned.
RankedSearch ==
  /\ lastOp.op = "searchExercises"
  /\ lastOp.status = "ok"
  /\ NormalizedQuery(lastOp.query) # <<>>

\* The positions of the cache's exercises with a score above 0 for the
\* tokens.
PositivePositions(tokens) ==
  {i \in 1..Len(cache.exercises) :
     calculateSearchScore(cache.exercises[i], tokens) > 0}

\* Whether idx lists every position of P once, by score descending and,
\* among equal scores, by position ascending.
RanksPositions(idx, P, tokens) ==
  /\ {idx[k] : k \in 1..Len(idx)} = P
  /\ \A k, l \in 1..Len(idx) :
       k < l
       => \/ calculateSearchScore(cache.exercises[idx[k]], tokens)
               > calculateSearchScore(cache.exercises[idx[l]], tokens)
          \/ /\ calculateSearchScore(cache.exercises[idx[k]], tokens)
                  = calculateSearchScore(cache.exercises[idx[l]], tokens)
             /\ idx[k] < idx[l]

\* Whether some expanded token of the query occurs in a scored field.
SomeExpandedTokenOccurs(exercise, tokens) ==
  \E k \in 1..Len(expandTokensWithSynonyms(tokens)) :
    AnyFieldIncludes(ScoredFields(exercise), expandTokensWithSynonyms(tokens)[k])

\* C11: a search with a non-empty query and no filter returns exactly the
\* cache's exercises with a score above 0, by score descending, equal scores
\* in cache order; with or without filters it returns no exercise in which
\* no expanded token occurs in a scored field.
C11_ResultIsPositiveScoresRankedStably ==
  RankedSearch
  => /\ lastOp.options = NoOptions
        => \E idx \in [1..Cardinality(PositivePositions(QueryTokens(lastOp.query)))
                         -> PositivePositions(QueryTokens(lastOp.query))] :
             /\ RanksPositions(idx, PositivePositions(QueryTokens(lastOp.query)),
                               QueryTokens(lastOp.query))
             /\ lastOp.items = [k \in 1..Len(idx) |-> cache.exercises[idx[k]]]
     /\ \A i \in 1..Len(lastOp.items) :
          SomeExpandedTokenOccurs(lastOp.items[i], QueryTokens(lastOp.query))

\* C11 witness: "chest" has been searched without filter on a catalog of
\* two different exercises of equal score, returned in cache order.
C11_Witness ==
  /\ Searched(Q_chest)
  /\ cache.exercises = <<E_BenchPressBarbell, E_BarbellBenchPress>>
  /\ lastOp.items = cache.exercises
  /\ calculateSearchScore(E_BenchPressBarbell, QueryTokens(Q_chest))
       = calculateSearchScore(E_BarbellBenchPress, QueryTokens(Q_chest))

\* The last step searched on an initialized cache and returned.
SearchReturned == lastOp.op = "searchExercises" /\ lastOp.status = "ok"

\* The muscle groups of an exercise, lowercased; an exercise without
\* secondary muscle groups has its primary one only.
MuscleGroupsOf(exercise) ==
  {ToLowerCase(exercise.primary_muscle_group)}
  \cup (IF IsSome(exercise.secondary_muscle_groups)
          THEN {ToLowerCase(Get(exercise.secondary_muscle_groups)[i]) :
                  i \in 1..Len(Get(exercise.secondary_muscle_groups))}
          ELSE {})

\* Whether an exercise satisfies every filter that is given.
SatisfiesGivenFilters(exercise, options) ==
  /\ IsSome(options.muscleGroup)
     => ToLowerCase(Get(options.muscleGroup)) \in MuscleGroupsOf(exercise)
  /\ IsSome(options.exerciseType)
     => ToLowerCase(exercise.type) = ToLowerCase(Get(options.exerciseType))

\* Whether an exercise satisfies every filter that is given and not the
\* empty string.
SatisfiesNonEmptyFilters(exercise, options) ==
  /\ (IsSome(options.muscleGroup) /\ Get(options.muscleGroup) # <<>>)
     => ToLowerCase(Get(options.muscleGroup)) \in MuscleGroupsOf(exercise)
  /\ (IsSome(options.exerciseType) /\ Get(options.exerciseType) # <<>>)
     => ToLowerCase(exercise.type) = ToLowerCase(Get(options.exerciseType))

\* C12 (as claimed): search(q, f) is search(q, {}) restricted, in the same
\* order, to the exercises that satisfy every filter given in f.
C12_FiltersRestrictUnfilteredSearch ==
  SearchReturned
  => LET Keep(exercise) == SatisfiesGivenFilters(exercise, lastOp.options)
     IN lastOp.items
          = SelectSeq(SearchResults(cache.exercises, lastOp.query, NoOptions),
                      Keep)

\* C12 (amended): search(q, f) is search(q, {}) restricted, in the same
\* order, to the exercises that satisfy every filter of f that is given
\* and not the empty string; a filter given as "" is ignored.
C12_NonEmptyFiltersRestrictUnfilteredSearch ==
  SearchReturned
  => LET Keep(exercise) == SatisfiesNonEmptyFilters(exercise, lastOp.options)
     IN lastOp.items
          = SelectSeq(SearchResults(cache.exercises, lastOp.query, NoOptions),
                      Keep)

\* C12 witness: a search filtered by "Biceps" has kept the exercise whose
\* secondary muscle group is "Biceps" and dropped the other one.
C12_Witness ==
  /\ SearchReturned
  /\ lastOp.options = [muscleGroup |-> Some(S_Biceps), exerciseType |-> None]
  /\ cache.exercises = <<E_BarbellBenchPress, E_LatPulldown>>
  /\ lastOp.items = <<E_LatPulldown>>

\* Whether a query is empty or made of whitespace only.
IsBlank(query) == \A i \in 1..Len(query) : IsWhiteSpace(query[i])

EveryTokenOccurs(f, tokens) ==
  \A k \in 1..Len(tokens) : AnyFieldIncludes(f, tokens[k])

\* The score of an exercise whose raw score is not reduced and whose
\* full-coverage bonus is added when there is more than one original token.
UnpenalizedScore(f, tokens) ==
  AdjustedScore(RawScore(f, tokens, expandTokensWithSynonyms(tokens), 1),
                Len(tokens), Len(tokens), Includes(f.title, JoinSpace(tokens)))

\* C14 (as claimed): for every query, an exercise in which each original
\* token occurs in some field keeps its raw score unreduced and, when the
\* query has more than one original token, gets the full-coverage bonus.
C14_FullCoverageIsNotPenalized ==
  RankedSearch
  => \A i \in 1..Len(cache.exercises) :
       EveryTokenOccurs(ScoredFields(cache.exercises[i]),
                        QueryTokens(lastOp.query))
       => calculateSearchScore(cache.exercises[i], QueryTokens(lastOp.query))
            = UnpenalizedScore(ScoredFields(cache.exercises[i]),
                               QueryTokens(lastOp.query))

(***************************************************************************)
(* One caller refreshing on its own, against a remote source whose any     *)
(* response may lack exercise_templates.                                   *)
(***************************************************************************)
RefreshResponses(page) ==
  [page_count : {None} \cup {Some(n) : n \in 0..MaxPages},
   exercise_templates : {None, Some(<<RemoteItem(page)>>)}]

RefreshNext ==
  \/ \E forceRefresh \in BOOLEAN :
       InitializeCache(1, forceRefresh) /\ UNCHANGED outerVars
  \/ \E data \in RefreshResponses(1) :
       FirstPageArrives(1, data) /\ UNCHANGED outerVars
  \/ \E data \in RefreshResponses(calls[1].currentPage) :
       PageArrives(1, data) /\ UNCHANGED outerVars
  \/ DelayElapses(1) /\ UNCHANGED outerVars
  \/ \E cause \in FetchErrors : FetchFails(1, cause) /\ UNCHANGED outerVars
  \/ \E d \in TickSteps : Tick(d) /\ UNCHANGED outerVars

RefreshSpec == Init /\ [][RefreshNext]_vars

\* The exercises of the pages of K, in page order.
RECURSIVE ItemsOfPages(_, _, _)
ItemsOfPages(K, page, lastPage) ==
  IF page > lastPage THEN <<>>
  ELSE (IF page \in K THEN <<RemoteItem(page)>> ELSE <<>>)
       \o ItemsOfPages(K, page + 1, lastPage)

\* totalPages after the first response, wherever the call has got to.
TotalPagesAfterFirstPage(c) ==
  IF calls'[c].pc = "idle" THEN provenance'.totalPages ELSE calls'[c].totalPages

\* C15: the refresh that filled the cache requested the pages
\* 1..totalPages in ascending order, each once and with page size 100, and
\* the cache holds the items of those pages in page order, a page without
\* items adding nothing; totalPages is the first response's page_count, or
\* 1 when that is absent (or 0), and no later response changes it.
C15_PagesFetchedInOrder ==
  /\ [](provenance.committed
          => /\ provenance.totalPages >= 1
             /\ provenance.requested
                  = [page \in 1..provenance.totalPages |->
                       [page |-> page, pageSize |-> 100]]
             /\ cache.exercises = provenance.received
             /\ \E K \in SUBSET (1..provenance.totalPages) :
                  cache.exercises = ItemsOfPages(K, 1, provenance.totalPages))
  /\ [][\A c \in Callers :
          /\ \A data \in RefreshResponses(1) :
               FirstPageArrives(c, data)
               => TotalPagesAfterFirstPage(c)
                    = IF data.page_count \in {None, Some(0)}
                        THEN 1
                        ELSE Get(data.page_count)
          /\ \A data \in RefreshResponses(calls[c].currentPage) :
               PageArrives(c, data)
               => /\ calls'[c].totalPages = calls[c].totalPages
                  /\ data.exercise_templates = None
                     => calls'[c].allExercises = calls[c].allExercises
       ]_vars

\* C15 witness: a refresh of as many requests as there can be pages has
\* filled the cache with the items of every page but the one before the
\* last, which came without items.
C15_Witness ==
  /\ provenance.committed
  /\ provenance.totalPages = MaxPages
  /\ Len(provenance.requested) = MaxPages
  /\ cache.exercises = ItemsOfPages((1..MaxPages) \ {MaxPages - 1}, 1, MaxPages)

(***************************************************************************)
(* The cache behaviours when every pending fetch settles and every pending *)
(* timer fires.                                                            *)
(***************************************************************************)
\* The pending getExerciseTemplates call of caller c resolves or rejects.
FetchSettles(c) ==
  /\ \/ \E data \in Responses(1) : FirstPageArrives(c, data)
     \/ \E data \in Responses(calls[c].currentPage) : PageArrives(c, data)
     \/ \E cause \in FetchErrors : FetchFails(c, cause)
  /\ UNCHANGED outerVars

LiveSpec ==
  /\ Init
  /\ [][Next]_vars
  /\ \A c \in Callers :
       /\ WF_vars(FetchSettles(c))
       /\ WF_vars(DelayElapses(c) /\ UNCHANGED outerVars)

\* C16: when fetches settle and timers fire, a suspended initializeCache
\* call is eventually over; a call ends by the early return, by updating
\* the cache to initialized, or by throwing the initialization error; and
\* a call has issued at most totalPages fetches.
C16_InitializeCacheCompletes ==
  /\ \A c \in Callers : (calls[c].pc # "idle") ~> (calls[c].pc = "idle")
  /\ [](\A c \in Callers : Len(calls[c].requested) <= calls[c].totalPages)
  /\ [](provenance.committed
          => Len(provenance.requested) <= provenance.totalPages)
  /\ [][\A c \in Callers :
          /\ (calls[c].pc # "idle" /\ calls'[c].pc = "idle")
             => /\ lastOp'.op = "initializeCache"
                /\ lastOp'.caller = c
                /\ \/ lastOp'.status = "updated" /\ cache'.isInitialized
                   \/ /\ lastOp'.status = "error"
                      /\ lastOp'.message[1]
                           = "Failed to initialize exercise cache: "
          /\ \A forceRefresh \in BOOLEAN :
               (InitializeCache(c, forceRefresh) /\ calls'[c].pc = "idle")
               => lastOp'.status = "fresh"
       ]_vars

\* C16 witness: a call that went through every suspension point, the page
\* fetches and the timer, has ended by updating the cache.
C16_Witness ==
  /\ lastOp.op = "initializeCache"
  /\ lastOp.status = "updated"
  /\ provenance.fetched = MaxPages
  /\ \A c \in Callers : calls[c].pc = "idle"

\* C17 (as claimed): on an initialized cache searchExercises returns,
\* whatever the query and the filters.
C17_SearchOfInitializedCacheReturns ==
  (lastOp.op = "searchExercises" /\ cache.isInitialized)
  => lastOp.status = "ok"

(***************************************************************************)
(* More properties of the cache manager.                                   *)
(***************************************************************************)
\* C18: in every reachable state a cache that is not initialized holds no
\* exercises and the timestamp 0.
C18_NotInitializedCacheIsEmpty ==
  ~cache.isInitialized
  => (cache.exercises = <<>> /\ cache.lastUpdated = 0)

\* C18 witness: a refresh has failed on a cache that is not initialized
\* while the other caller's refresh holds a buffer of two exercises.
C18_Witness ==
  /\ ~cache.isInitialized
  /\ lastOp.op = "initializeCache"
  /\ lastOp.status = "error"
  /\ \E c \in Callers : calls[c].pc = "delay" /\ Len(calls[c].allExercises) = 2

(***************************************************************************)
(* The tool layer (src/src/tools/templates.ts): search-exercises calls,    *)
(* which reach the cache through ensureCacheInitialized.                   *)
(***************************************************************************)
\* Mutant of MustInitialize: a cache past its TTL is initialized again.
MustInitializeWhenStale == ~cacheInitialized \/ cacheExpired(now)

\* The condition of ensureCacheInitialized: if (!cacheInitialized).
MustInitialize == ~cacheInitialized

\* A search-exercises call arrives.  With the flag unset the handler calls
\* initializeCache(hevyClient) and suspends on it; with the flag set it
\* goes on to searchExercises (no step of another caller that matters can
\* come between, the cache being written by initializeCache only).
SearchExercisesTool(c, query, options) ==
  /\ handlers[c].pc = "none"
  /\ IF MustInitialize
       THEN /\ InitializeCache(c, FALSE)
            /\ handlers' = [handlers EXCEPT ![c] =
                               [pc |-> "ensuring", query |-> query,
                                options |-> options]]
            /\ UNCHANGED cacheInitialized
       ELSE /\ CallSearchExercises(query, options)
            /\ UNCHANGED toolVars
  /\ UNCHANGED cleared

\* initializeCache has returned to ensureCacheInitialized, which sets the
\* flag; the handler then searches.
EnsureCacheInitializedResumes(c) ==
  /\ handlers[c].pc = "ensuring"
  /\ calls[c].pc = "idle"
  /\ cacheInitialized' = TRUE
  /\ handlers' = [handlers EXCEPT ![c] = NoHandler]
  /\ CallSearchExercises(handlers[c].query, handlers[c].options)
  /\ UNCHANGED cleared

\* initializeCache has thrown: the error passes through
\* ensureCacheInitialized and ends the handler; the flag is not assigned.
InitializationFails(c, cause) ==
  /\ handlers[c].pc = "ensuring"
  /\ FetchFails(c, cause)
  /\ handlers' = [handlers EXCEPT ![c] = NoHandler]
  /\ UNCHANGED <<cacheInitialized, cleared>>

ToolNext ==
  \/ \E c \in Callers, search \in CacheSearches :
       SearchExercisesTool(c, search.query, search.options)
  \/ \E c \in Callers : EnsureCacheInitializedResumes(c)
  \/ \E c \in Callers, data \in Responses(1) :
       FirstPageArrives(c, data) /\ UNCHANGED outerVars
  \/ \E c \in Callers : \E data \in Responses(calls[c].currentPage) :
       PageArrives(c, data) /\ UNCHANGED outerVars
  \/ \E c \in Callers : DelayElapses(c) /\ UNCHANGED outerVars
  \/ \E c \in Callers, cause \in FetchErrors : InitializationFails(c, cause)
  \/ \E d \in TickSteps : Tick(d) /\ UNCHANGED outerVars

ToolSpec == Init /\ [][ToolNext]_vars

\* Caller c enters initializeCache in this step.
InitializeCacheInvoked(c) ==
  /\ calls[c].pc = "idle"
  /\ \/ calls'[c].pc # "idle"
     \/ lastOp'.op = "initializeCache" /\ lastOp'.caller = c

\* C19: the flag is set only when a handler's initializeCache call has
\* returned, and is never unset; once it is set no search-exercises call
\* enters initializeCache, however old the cache, so no new fetch sequence
\* starts; a failing initializeCache leaves the flag as it is, and a call
\* that arrives with the flag unset enters initializeCache.
C19_ToolInitializesCacheOnce ==
  [][/\ cacheInitialized
        => /\ cacheInitialized'
           /\ \A c \in Callers :
                /\ ~InitializeCacheInvoked(c)
                /\ calls'[c].pc = "awaitFirstPage"
                   => calls[c].pc = "awaitFirstPage"
     /\ (~cacheInitialized /\ cacheInitialized')
        => /\ \E c \in Callers : handlers[c].pc = "ensuring" /\ calls[c].pc = "idle"
           /\ cache.isInitialized
     /\ \A c \in Callers :
          /\ \A cause \in FetchErrors :
               FetchFails(c, cause)
               => /\ cacheInitialized' = cacheInitialized
                  /\ handlers'[c].pc = "none"
          /\ \A search \in CacheSearches :
               ( /\ ~cacheInitialized
                 /\ SearchExercisesTool(c, search.query, search.options) )
               => /\ InitializeCacheInvoked(c)
                  /\ handlers'[c].pc = "ensuring"
    ]_vars

\* C19 witness: with the flag set, a search-exercises call has searched a
\* cache more than one TTL old, and no initializeCache call is in progress.
C19_Witness ==
  /\ cacheInitialized
  /\ now - cache.lastUpdated > CACHE_TTL
  /\ lastOp.op = "searchExercises"
  /\ lastOp.status = "ok"
  /\ Refreshing = {}

(***************************************************************************)
(* clearCache while a refresh is in progress.                              *)
(***************************************************************************)
\* The history of clears after a step of initializeCache: a call that has
\* ended is forgotten.
TracksClears ==
  /\ cleared' = {c \in cleared : calls'[c].pc # "idle"}
  /\ UNCHANGED toolVars

\* The behaviours of initializeCache calls and clearCache, with the history
\* of which calls in progress a clearCache has found.
ClearNext ==
  \/ \E c \in Callers, forceRefresh \in BOOLEAN :
       InitializeCache(c, forceRefresh) /\ TracksClears
  \/ \E c \in Callers, data \in Responses(1) :
       FirstPageArrives(c, data) /\ TracksClears
  \/ \E c \in Callers : \E data \in Responses(calls[c].currentPage) :
       PageArrives(c, data) /\ TracksClears
  \/ \E c \in Callers : DelayElapses(c) /\ TracksClears
  \/ \E c \in Callers, cause \in FetchErrors :
       FetchFails(c, cause) /\ TracksClears
  \/ ClearCache /\ cleared' = Refreshing /\ UNCHANGED toolVars
  \/ \E d \in TickSteps : Tick(d) /\ UNCHANGED outerVars

ClearSpec == Init /\ [][ClearNext]_vars

\* The callers whose initializeCache call was in progress when clearCache
\* ran and has not ended since.
ClearedRefreshes == {c \in cleared : calls[c].pc # "idle"}

\* Caller c's initializeCache call returns in this step after the update.
Commits(c) ==
  /\ calls[c].pc # "idle"
  /\ calls'[c].pc = "idle"
  /\ lastOp'.op = "initializeCache"
  /\ lastOp'.caller = c
  /\ lastOp'.status = "updated"

\* clearCache leaves every call in progress where it is, with its buffer;
\* such a call ends only by its own update or by a failing fetch of its
\* own, and its update makes the cache initialized with the items of all
\* its pages 1..totalPages, in order, and the time of the update.
ClearedRefreshRunsToItsUpdate ==
  [][/\ lastOp'.op = "clearCache"
        => /\ calls' = calls
           /\ cleared' = Refreshing
     /\ \A c \in ClearedRefreshes :
          /\ calls'[c].pc = "idle"
             => /\ lastOp'.op = "initializeCache"
                /\ lastOp'.caller = c
                /\ lastOp'.status \in {"updated", "error"}
          /\ Commits(c)
             => /\ cache'.isInitialized
                /\ cache'.lastUpdated = now
                /\ cache'.exercises = provenance'.received
                /\ provenance'.fetched = provenance'.totalPages
                /\ provenance'.fetched = Len(provenance'.requested)
    ]_vars

\* C20 (as claimed): a refresh in progress when clearCache runs is not
\* cancelled; from the clear until that refresh ends the cache is not
\* initialized; and the refresh's update, if its fetches succeed, makes the
\* cache initialized with that refresh's complete items and the time of
\* the update.
C20_CacheWaitsForClearedRefresh ==
  /\ [](ClearedRefreshes # {} => ~cache.isInitialized)
  /\ ClearedRefreshRunsToItsUpdate

====
